---- MODULE Spec2Model ----
(***************************************************************************)
(* Model of the circuity-factor service (aunshx/run-factor-be).            *)
(*                                                                         *)
(* Request handlers (app/routers/circuity.py) run against one shared       *)
(* relational table (app/database.py).  A handler is a sequence of         *)
(* blocking steps: the forward cache query, the reverse cache query, the   *)
(* distance computation with its single routing-service call, and the      *)
(* insert.  Handlers of different server workers interleave between those  *)
(* steps; every SQL statement reads or writes the table atomically.        *)
(*                                                                         *)
(* Number representation (all integers):                                   *)
(*   coordinates           in 1e-7 degree   (37.7749 is 377749000)         *)
(*   stored coordinates    in 1e-6 degree   (after round(x, 6))            *)
(*   distances             in 1/100 unit    (after round(x, 2))            *)
(*   circuity_factor       in 1/1000        (after round(x, 3))            *)
(*   efficiency_percent    in 1/100 percent (after round(x, 2))            *)
(* round(x, n) is modelled on exact quotients, ties to even.               *)
(*                                                                         *)
(* Specifications:                                                         *)
(*   Spec             calculate, history (default query) and stats         *)
(*                    requests over an initially empty table               *)
(*   SpecHistory      history queries with every page, limit, search and   *)
(*                    sort_by over tables populated earlier                *)
(*   SpecNames        one route requested under different location names   *)
(*   SpecHealth       health checks while calculate requests are served    *)
(*   SpecStoreErrors  calculate requests against a database whose          *)
(*                    statements may fail                                  *)
(*   SpecSequential   calculate requests served one at a time              *)
(***************************************************************************)
EXTENDS Integers, Sequences, FiniteSets, TLC

(* ---------------------------- bounds ---------------------------------- *)

\* number of request handlers that can be in progress at the same time
NumWorkers == 2

\* number of requests accepted in one behaviour
MaxRequests == 3

\* largest page number of a history query
MaxPage == 3

\* largest limit of a history query (the handler admits 1..100)
MaxLimit == 2

(* ---------------------------- values ---------------------------------- *)

None == "None"

\* an absent Optional[str] name
NoName == <<>>

Units == {"miles", "km"}

\* Location(Coordinates): lat, lng, optional name.  Names are character
\* sequences so that the history search can look inside them.
LocA == [lat |-> 377749000, lng |-> -1224194000, name |-> <<"S", "F">>]
LocA2 == [lat |-> 377749004, lng |-> -1224194000, name |-> NoName]
LocB == [lat |-> 377849000, lng |-> -1224094000, name |-> <<"O", "a", "k">>]

Locations == {LocA, LocA2, LocB}

\* the routes that are requested: a route, its reverse, the route from a
\* point that rounds to the same 6 decimals, and two points 0.04 m apart
Routes == {<<LocA, LocB>>, <<LocB, LocA>>, <<LocA2, LocB>>, <<LocA, LocA2>>}

\* CircuityRequest: origin, destination, units ("miles" | "km")
\* every route in miles (the default), one route in kilometers as well
Requests ==
    {[origin |-> r[1], destination |-> r[2], units |-> "miles"] : r \in Routes}
    \cup {[origin |-> LocA, destination |-> LocB, units |-> "km"]}

\* search terms of a history query: absent, empty, and two terms
NoSearch == <<"absent">>
Searches == {NoSearch, <<>>, <<"O", "A">>, <<"f">>}

\* Query defaults of the history endpoint: search=None, sort_by="newest"
DefaultSearch == NoSearch
DefaultSortBy == "newest"

\* sort_by values the history endpoint documents, and one it does not
SortKeys == {"newest", "oldest", "circuity_asc", "circuity_desc"}
SortBys == SortKeys \cup {"bogus"}

\* distances (meters) the routing service may report for a route
Meters == {0, 1500, 2100}

\* wall-clock durations (ms) of one computation
ElapsedMs == {7, 12}

\* What one GET to the routing service can produce: a transport failure,
\* or an HTTP response with a status and a JSON body {code, message, routes}.
\* The service sends its error codes with status 400; a body with an error
\* code under status 200 is included to reach the handler's code check.
OsrmOutcomes ==
    {[transport |-> "Timeout", status |-> 0, code |-> None, message |-> None, routes |-> <<>>],
     [transport |-> "ok", status |-> 400, code |-> "NoSegment", message |-> "Could not find a matching segment", routes |-> <<>>],
     [transport |-> "ok", status |-> 200, code |-> "NoSegment", message |-> "Could not find a matching segment", routes |-> <<>>],
     [transport |-> "ok", status |-> 200, code |-> "Ok", message |-> None, routes |-> <<>>]}
    \cup
    {[transport |-> "ok", status |-> 200, code |-> "Ok", message |-> None, routes |-> <<[distance |-> m]>>] : m \in Meters}

(* ---------------------------- rounding -------------------------------- *)

\* round(n / d) to the nearest integer, ties to even (Python's round)
RoundHalfEven(n, d) ==
    LET q == n \div d
        r == n % d
    IN  IF 2 * r < d THEN q
        ELSE IF 2 * r > d THEN q + 1
        ELSE IF q % 2 = 0 THEN q ELSE q + 1

\* round(x, 6) of a coordinate given in 1e-7 degree; result in 1e-6 degree
Round6(x) == RoundHalfEven(x, 10)

(* ------------------------ DistanceService ----------------------------- *)

\* The two places of the model: LocA and LocA2 differ by 4e-7 degree.
Site(lat, lng) == IF lat < 377800000 THEN "sf" ELSE "oak"

\* calculate_straight_distance: the Haversine formula with R = 3959 (miles)
\* or 6371 (km), rounded to 2 decimals.  Tabulated: the values below are
\* the function's results at the model's locations, in 1/100 unit
\* (0.88 miles, 1.42 km; 0.0 between LocA and LocA2 and for equal points).
calculate_straight_distance(lat1, lng1, lat2, lng2, units) ==
    IF Site(lat1, lng1) = Site(lat2, lng2) THEN 0
    ELSE IF units = "miles" THEN 88 ELSE 142

\* An exception: the message is the sequence of the parts its f-string joins.
Raise(msg) == [ok |-> FALSE, value |-> 0, error |-> msg]
Return(v) == [ok |-> TRUE, value |-> v, error |-> <<>>]

\* result r of a call that issued the routing requests gets
WithRequests(r, gets) == [ok |-> r.ok, value |-> r.value, error |-> r.error, gets |-> gets]

\* str(e) of the requests exception for outcome o
RequestExceptionText(o) ==
    IF o.transport # "ok" THEN o.transport ELSE "HTTPError"

\* Variant of calculate_road_distance that repeats the GET after a
\* transport failure.
calculate_road_distance_retrying(o, units) ==
    WithRequests(
    IF o.transport # "ok" \/ o.status >= 400
    THEN Raise(<<"OSRM connection error", RequestExceptionText(o)>>)
    ELSE IF o.code # "Ok"
    THEN Raise(<<"Road distance calculation failed", "OSRM error",
                 IF o.message = None THEN "Unknown error" ELSE o.message>>)
    ELSE IF o.routes = <<>>
    THEN Raise(<<"Road distance calculation failed", "No routes found">>)
    ELSE IF units = "miles"
    THEN Return(RoundHalfEven(o.routes[1].distance * 621371, 10000000))
    ELSE Return(RoundHalfEven(o.routes[1].distance, 10)),
    IF o.transport # "ok" THEN <<"osrm", "osrm">> ELSE <<"osrm">>)

\* calculate_road_distance, given the outcome o of its one requests.get
\* (gets: the requests issued, in order):
\* RequestException (transport failure, raise_for_status) is re-raised as
\* "OSRM connection error"; every exception raised inside the try block is
\* re-raised as "Road distance calculation failed"; otherwise
\* meters / 1000, * 0.621371 for miles, rounded to 2 decimals.
calculate_road_distance(o, units) ==
    WithRequests(
    IF o.transport # "ok" \/ o.status >= 400
    THEN Raise(<<"OSRM connection error", RequestExceptionText(o)>>)
    ELSE IF o.code # "Ok"
    THEN Raise(<<"Road distance calculation failed", "OSRM error",
                 IF o.message = None THEN "Unknown error" ELSE o.message>>)
    ELSE IF o.routes = <<>>
    THEN Raise(<<"Road distance calculation failed", "No routes found">>)
    ELSE IF units = "miles"
    THEN Return(RoundHalfEven(o.routes[1].distance * 621371, 10000000))
    ELSE Return(RoundHalfEven(o.routes[1].distance, 10)),
    <<"osrm">>)

ZeroDivisionError == <<"float division by zero">>

\* Variant of Ratios that answers zero distances with zero ratios.
Ratios_zero_guarded(road_distance, straight_distance) ==
    IF straight_distance = 0 \/ road_distance = 0
    THEN Return([circuity_factor |-> 0, efficiency_percent |-> 0])
    ELSE Return([circuity_factor |-> RoundHalfEven(road_distance * 1000, straight_distance),
                 efficiency_percent |-> RoundHalfEven(straight_distance * 10000, road_distance)])

\* Variant of Ratios that rounds the circuity factor to 2 decimals.
Ratios_two_decimals(road_distance, straight_distance) ==
    IF straight_distance = 0 \/ road_distance = 0
    THEN Raise(ZeroDivisionError)
    ELSE Return([circuity_factor |-> 10 * RoundHalfEven(road_distance * 100, straight_distance),
                 efficiency_percent |-> RoundHalfEven(straight_distance * 10000, road_distance)])

\* The two ratios of calculate_circuity (lines 81-82); either division
\* raises ZeroDivisionError, the first one first.
Ratios(road_distance, straight_distance) ==
    IF straight_distance = 0 \/ road_distance = 0
    THEN Raise(ZeroDivisionError)
    ELSE Return([circuity_factor |-> RoundHalfEven(road_distance * 1000, straight_distance),
                 efficiency_percent |-> RoundHalfEven(straight_distance * 10000, road_distance)])

\* Variant of calculate_circuity that asks for the road distance first.
calculate_circuity_road_first(lat1, lng1, lat2, lng2, units, o, elapsed) ==
    LET road == calculate_road_distance(o, units)
        straight_distance == calculate_straight_distance(lat1, lng1, lat2, lng2, units)
        ratios == Ratios(road.value, straight_distance)
        events == road.gets \o <<"straight">>
    IN  IF ~road.ok THEN WithRequests(Raise(road.error), road.gets)
        ELSE IF ~ratios.ok THEN WithRequests(Raise(ratios.error), events)
        ELSE WithRequests(
             Return([road_distance |-> road.value,
                     straight_distance |-> straight_distance,
                     circuity_factor |-> ratios.value.circuity_factor,
                     efficiency_percent |-> ratios.value.efficiency_percent,
                     calculation_time_ms |-> elapsed]), events)

\* calculate_circuity, given the routing outcome o and the elapsed time:
\* straight distance, then road distance, then the two ratios
\* (gets: the sub-calls made, in order).
calculate_circuity(lat1, lng1, lat2, lng2, units, o, elapsed) ==
    LET straight_distance == calculate_straight_distance(lat1, lng1, lat2, lng2, units)
        road == calculate_road_distance(o, units)
        ratios == Ratios(road.value, straight_distance)
        events == <<"straight">> \o road.gets
    IN  IF ~road.ok THEN WithRequests(Raise(road.error), events)
        ELSE IF ~ratios.ok THEN WithRequests(Raise(ratios.error), events)
        ELSE WithRequests(
             Return([road_distance |-> road.value,
                     straight_distance |-> straight_distance,
                     circuity_factor |-> ratios.value.circuity_factor,
                     efficiency_percent |-> ratios.value.efficiency_percent,
                     calculation_time_ms |-> elapsed]), events)

\* What the probe's GET (timeout 5 s) can produce: a transport failure, or
\* an HTTP response with a status and a body that may fail to parse as
\* JSON, may parse to something that is not an object, or is an object
\* with or without the code "Ok".
ProbeOutcomes ==
    {[transport |-> t, status |-> 0, json |-> "none", code |-> None] :
        t \in {"ConnectionError", "Timeout"}}
    \cup {[transport |-> "ok", status |-> 503, json |-> "unparsable", code |-> None],
          [transport |-> "ok", status |-> 400, json |-> "object", code |-> "NoSegment"],
          [transport |-> "ok", status |-> 200, json |-> "unparsable", code |-> None],
          [transport |-> "ok", status |-> 200, json |-> "array", code |-> None],
          [transport |-> "ok", status |-> 200, json |-> "object", code |-> None],
          [transport |-> "ok", status |-> 200, json |-> "object", code |-> "NoRoute"],
          [transport |-> "ok", status |-> 200, json |-> "object", code |-> "Ok"]}

\* Variant of test_osrm_connection that lets a transport failure through.
test_osrm_connection_uncaught(o) ==
    IF o.transport # "ok" THEN Raise(<<o.transport>>)
    ELSE IF o.status # 200 THEN Return(FALSE)
    ELSE IF o.json # "object" THEN Return(FALSE)
    ELSE Return(o.code = "Ok")

\* test_osrm_connection: requests.get raises on a transport failure,
\* response.json() on an unparsable body and .get on a body that is not an
\* object; `except Exception` turns each of them into False.
test_osrm_connection(o) ==
    IF o.transport # "ok" THEN Return(FALSE)
    ELSE IF o.status # 200 THEN Return(FALSE)
    ELSE IF o.json = "unparsable" THEN Return(FALSE)
    ELSE IF o.json # "object" THEN Return(FALSE)
    ELSE Return(o.code = "Ok")

(* -------------------------- CacheService ------------------------------ *)

\* Variant of Matching that compares with the coordinates as requested,
\* not rounded to 6 decimals.
Matching_unrounded(table, lat1, lng1, lat2, lng2, units) ==
    {i \in DOMAIN table :
        /\ table[i].origin_lat * 10 = lat1
        /\ table[i].origin_lng * 10 = lng1
        /\ table[i].destination_lat * 10 = lat2
        /\ table[i].destination_lng * 10 = lng2
        /\ table[i].units = units}

\* Variant of Matching that matches rows of any units.
Matching_any_units(table, lat1, lng1, lat2, lng2, units) ==
    {i \in DOMAIN table :
        /\ table[i].origin_lat = Round6(lat1)
        /\ table[i].origin_lng = Round6(lng1)
        /\ table[i].destination_lat = Round6(lat2)
        /\ table[i].destination_lng = Round6(lng2)}

\* rows (ids) of the table that the filter of a cache query selects
Matching(table, lat1, lng1, lat2, lng2, units) ==
    {i \in DOMAIN table :
        /\ table[i].origin_lat = Round6(lat1)
        /\ table[i].origin_lng = Round6(lng1)
        /\ table[i].destination_lat = Round6(lat2)
        /\ table[i].destination_lng = Round6(lng2)
        /\ table[i].units = units}

\* Variant of ForwardMatches whose filter includes the location names.
ForwardMatches_named(table, req) ==
    {i \in Matching(table, req.origin.lat, req.origin.lng,
                    req.destination.lat, req.destination.lng, req.units) :
        /\ table[i].origin_name = req.origin.name
        /\ table[i].destination_name = req.destination.name}

\* Variant of ForwardMatches that yields to a row of the reverse direction.
ForwardMatches_reverse_first(table, req) ==
    IF Matching(table, req.destination.lat, req.destination.lng,
                req.origin.lat, req.origin.lng, req.units) # {}
    THEN {}
    ELSE Matching(table, req.origin.lat, req.origin.lng,
                  req.destination.lat, req.destination.lng, req.units)

\* first query of get_cached_calculation (lines 26-32)
ForwardMatches(table, req) ==
    Matching(table, req.origin.lat, req.origin.lng,
             req.destination.lat, req.destination.lng, req.units)

\* Variant of ReverseMatches that does not swap the endpoints.
ReverseMatches_unswapped(table, req) ==
    Matching(table, req.origin.lat, req.origin.lng,
             req.destination.lat, req.destination.lng, req.units)

\* second query of get_cached_calculation (lines 36-42)
ReverseMatches(table, req) ==
    Matching(table, req.destination.lat, req.destination.lng,
             req.origin.lat, req.origin.lng, req.units)

\* CircuityResponse built from a row on a cache hit (lines 44-55)
CachedResponse(req, calc) ==
    [origin |-> req.origin,
     destination |-> req.destination,
     road_distance |-> calc.road_distance,
     straight_distance |-> calc.straight_distance,
     circuity_factor |-> calc.circuity_factor,
     efficiency_percent |-> calc.efficiency_percent,
     units |-> calc.units,
     calculation_time_ms |-> calc.calculation_time_ms,
     cached |-> TRUE]

\* Variant of FreshResponse that flags the computed response as cached.
FreshResponse_flagged_cached(req, r) ==
    [origin |-> req.origin,
     destination |-> req.destination,
     road_distance |-> r.road_distance,
     straight_distance |-> r.straight_distance,
     circuity_factor |-> r.circuity_factor,
     efficiency_percent |-> r.efficiency_percent,
     units |-> req.units,
     calculation_time_ms |-> r.calculation_time_ms,
     cached |-> TRUE]

\* CircuityResponse built by the handler after a computation (lines 39-49)
FreshResponse(req, r) ==
    [origin |-> req.origin,
     destination |-> req.destination,
     road_distance |-> r.road_distance,
     straight_distance |-> r.straight_distance,
     circuity_factor |-> r.circuity_factor,
     efficiency_percent |-> r.efficiency_percent,
     units |-> req.units,
     calculation_time_ms |-> r.calculation_time_ms,
     cached |-> FALSE]

\* the row save_calculation builds; id and created_at come from the database
NewRow(id, created_at, req, resp) ==
    [id |-> id,
     origin_lat |-> Round6(req.origin.lat),
     origin_lng |-> Round6(req.origin.lng),
     origin_name |-> req.origin.name,
     destination_lat |-> Round6(req.destination.lat),
     destination_lng |-> Round6(req.destination.lng),
     destination_name |-> req.destination.name,
     road_distance |-> resp.road_distance,
     straight_distance |-> resp.straight_distance,
     circuity_factor |-> resp.circuity_factor,
     efficiency_percent |-> resp.efficiency_percent,
     units |-> resp.units,
     calculation_time_ms |-> resp.calculation_time_ms,
     created_at |-> created_at]

\* rows of the same route in the same units, in either direction
SameRoute(table, req) ==
    Matching(table, req.origin.lat, req.origin.lng,
             req.destination.lat, req.destination.lng, req.units)
    \cup Matching(table, req.destination.lat, req.destination.lng,
                  req.origin.lat, req.origin.lng, req.units)

\* Variant of save_calculation that inserts only when the route has no row.
save_calculation_if_absent(table, created_at, req, resp) ==
    IF SameRoute(table, req) # {} THEN table
    ELSE Append(table, NewRow(Len(table) + 1, created_at, req, resp))

\* Variant of save_calculation that updates the row of the route in place.
save_calculation_upsert(table, created_at, req, resp) ==
    IF SameRoute(table, req) # {}
    THEN LET i == CHOOSE k \in SameRoute(table, req) : TRUE
         IN  [table EXCEPT ![i] = NewRow(i, created_at, req, resp)]
    ELSE Append(table, NewRow(Len(table) + 1, created_at, req, resp))

\* save_calculation: db.add + db.commit insert one row
save_calculation(table, created_at, req, resp) ==
    Append(table, NewRow(Len(table) + 1, created_at, req, resp))

\* Variant of get_calculation_stats without the branch for an empty table.
get_calculation_stats_unguarded(table) ==
    Raise(<<"AttributeError", "Session", "func">>)

\* get_calculation_stats: count; zeros for an empty table; otherwise the
\* averages are taken through db.func, which a Session does not have.
get_calculation_stats(table) ==
    IF Len(table) = 0
    THEN Return([total_calculations |-> 0,
                 average_circuity_factor |-> 0,
                 average_efficiency_percent |-> 0])
    ELSE Raise(<<"AttributeError", "Session", "func">>)

(* ------------------ history query (CacheService) ---------------------- *)

\* str.lower() on the characters that occur in names and search terms
Lower(c) ==
    CASE c = "S" -> "s" [] c = "F" -> "f" [] c = "O" -> "o"
      [] c = "A" -> "a" [] c = "K" -> "k" [] OTHER -> c

LowerAll(w) == [i \in 1 .. Len(w) |-> Lower(w[i])]

\* term occurs in name, ignoring case; an absent name contains nothing
Contains(name, term) ==
    \E k \in 0 .. (Len(name) - Len(term)) :
        /\ Len(name) > 0
        /\ LowerAll(SubSeq(name, k + 1, k + Len(term))) = LowerAll(term)

\* rows selected by the search filter: origin name OR destination name
Filtered(table, search) ==
    IF search = NoSearch \/ search = <<>> THEN DOMAIN table
    ELSE {i \in DOMAIN table :
            Contains(table[i].origin_name, search) \/ Contains(table[i].destination_name, search)}

\* row i may come before row j under sort_by
InOrder(table, sort_by, i, j) ==
    CASE sort_by = "newest" -> table[i].created_at >= table[j].created_at
      [] sort_by = "oldest" -> table[i].created_at <= table[j].created_at
      [] sort_by = "circuity_asc" -> table[i].circuity_factor <= table[j].circuity_factor
      [] sort_by = "circuity_desc" -> table[i].circuity_factor >= table[j].circuity_factor

\* the orders in which ORDER BY may return the rows ids (ties in any order)
Orderings(table, ids, sort_by) ==
    {f \in [1 .. Cardinality(ids) -> ids] :
        /\ \A a, b \in DOMAIN f : a # b => f[a] # f[b]
        /\ \A a \in DOMAIN f : a > 1 => InOrder(table, sort_by, f[a - 1], f[a])}

\* OFFSET (page - 1) * limit LIMIT limit of an ordered result
PageOf(order, page, limit) ==
    SubSeq(order, (page - 1) * limit + 1,
           IF page * limit < Len(order) THEN page * limit ELSE Len(order))

\* get_calculation_history_paginated -> (records, total_count), with the
\* order the database returned; an unrecognized sort_by is rejected.
get_calculation_history_paginated(table, page, limit, search, sort_by, order) ==
    IF sort_by \notin SortKeys
    THEN Raise(<<"ValueError", "sort_by", sort_by>>)
    ELSE Return([records |-> [k \in DOMAIN PageOf(order, page, limit) |->
                                 table[PageOf(order, page, limit)[k]]],
                 total_count |-> Cardinality(Filtered(table, search))])

(* ------------------ history handler (router) -------------------------- *)

\* Variant of TotalPages that rounds down.
TotalPages_floor(total_count, limit) == total_count \div limit

\* total_pages = (total_count + limit - 1) // limit
TotalPages(total_count, limit) == (total_count + limit - 1) \div limit

\* HistoryResponse of a row
HistoryItem(calc) ==
    [id |-> calc.id,
     origin_lat |-> calc.origin_lat,
     origin_lng |-> calc.origin_lng,
     origin_name |-> calc.origin_name,
     destination_lat |-> calc.destination_lat,
     destination_lng |-> calc.destination_lng,
     destination_name |-> calc.destination_name,
     road_distance |-> calc.road_distance,
     straight_distance |-> calc.straight_distance,
     circuity_factor |-> calc.circuity_factor,
     units |-> calc.units,
     created_at |-> calc.created_at,
     calculation_time_ms |-> calc.calculation_time_ms]

\* PaginatedHistoryResponse
PaginatedHistory(calculations, total_count, page, limit) ==
    [items |-> [k \in DOMAIN calculations |-> HistoryItem(calculations[k])],
     total_count |-> total_count,
     page |-> page,
     limit |-> limit,
     total_pages |-> TotalPages(total_count, limit),
     has_next |-> page < TotalPages(total_count, limit),
     has_prev |-> page > 1]

(* ------------------------------ state --------------------------------- *)

Workers == 1 .. NumWorkers

VARIABLES
    store,      \* table circuity_calculations: sequence of rows, row i has id i
    clock,      \* database clock now(): its value is the number of transactions begun
    pc,         \* per worker: position of the handler it runs
    request,    \* per worker: <<request>> of the running handler, <<>> if none
    response,   \* per worker: <<CircuityResponse>> computed and not yet saved
    txn_start,  \* per worker: now() of the session's transaction
    osrm,       \* per worker: <<outcome>> of the routing request it made
    trace,      \* per worker: steps the running handler has taken
    seen,       \* per worker: number of rows committed when the request arrived
    reply       \* per worker: reply of the finished handler, <<>> before that

vars == <<store, clock, pc, request, response, txn_start, osrm, trace, seen, reply>>

Init ==
    /\ store = <<>>
    /\ clock = 0
    /\ pc = [p \in Workers |-> "idle"]
    /\ request = [p \in Workers |-> <<>>]
    /\ response = [p \in Workers |-> <<>>]
    /\ txn_start = [p \in Workers |-> 0]
    /\ osrm = [p \in Workers |-> <<>>]
    /\ trace = [p \in Workers |-> <<>>]
    /\ seen = [p \in Workers |-> 0]
    /\ reply = [p \in Workers |-> <<>>]

\* a handler's reply: 200 with a body, or HTTPException 500 with a detail
Ok200(body) == [status |-> 200, body |-> <<body>>, detail |-> <<>>]
Http500(prefix, error) == [status |-> 500, body |-> <<>>, detail |-> <<prefix>> \o error]

\* Query.first() without ORDER BY: any of the matching rows
First(table, ids) == {table[i] : i \in ids}

\* A request is dispatched to the first free worker.
Accepts(p) ==
    /\ clock < MaxRequests
    /\ pc[p] = "idle"
    /\ \A q \in Workers : q < p => pc[q] # "idle"

(* ---------------------- POST /calculate handler ----------------------- *)

\* The request arrives; get_cached_calculation runs its first query, which
\* opens the session's transaction.  A match is returned with cached=True.
Calculate(p, req) ==
    /\ Accepts(p)
    /\ clock' = clock + 1
    /\ txn_start' = [txn_start EXCEPT ![p] = clock + 1]
    /\ request' = [request EXCEPT ![p] = <<req>>]
    /\ seen' = [seen EXCEPT ![p] = Len(store)]
    /\ IF ForwardMatches(store, req) # {}
       THEN \E calc \in First(store, ForwardMatches(store, req)) :
               /\ reply' = [reply EXCEPT ![p] = Ok200(CachedResponse(req, calc))]
               /\ trace' = [trace EXCEPT ![p] = <<"forward_hit">>]
               /\ pc' = [pc EXCEPT ![p] = "done"]
       ELSE /\ trace' = [trace EXCEPT ![p] = <<"forward_miss">>]
            /\ pc' = [pc EXCEPT ![p] = "lookup_reverse"]
            /\ UNCHANGED reply
    /\ UNCHANGED <<store, response, osrm>>

\* get_cached_calculation runs its second query, with the endpoints swapped.
LookupReverse(p) ==
    /\ pc[p] = "lookup_reverse"
    /\ LET req == request[p][1]
       IN  IF ReverseMatches(store, req) # {}
           THEN \E calc \in First(store, ReverseMatches(store, req)) :
                   /\ reply' = [reply EXCEPT ![p] = Ok200(CachedResponse(req, calc))]
                   /\ trace' = [trace EXCEPT ![p] = Append(@, "reverse_hit")]
                   /\ pc' = [pc EXCEPT ![p] = "done"]
           ELSE /\ trace' = [trace EXCEPT ![p] = Append(@, "reverse_miss")]
                /\ pc' = [pc EXCEPT ![p] = "compute"]
                /\ UNCHANGED reply
    /\ UNCHANGED <<store, clock, request, response, txn_start, osrm, seen>>

\* Variant of Compute that records a failed computation as a row of zeros.
Compute_placeholder(p, o, elapsed) ==
    /\ pc[p] = "compute"
    /\ LET req == request[p][1]
           r == calculate_circuity(req.origin.lat, req.origin.lng,
                                   req.destination.lat, req.destination.lng,
                                   req.units, o, elapsed)
           zeros == [road_distance |-> 0, straight_distance |-> 0,
                     circuity_factor |-> 0, efficiency_percent |-> 0,
                     calculation_time_ms |-> elapsed]
       IN  /\ trace' = [trace EXCEPT ![p] = @ \o r.gets]
           /\ osrm' = [osrm EXCEPT ![p] = <<o>>]
           /\ IF r.ok
              THEN /\ response' = [response EXCEPT ![p] = <<FreshResponse(req, r.value)>>]
                   /\ pc' = [pc EXCEPT ![p] = "save"]
                   /\ UNCHANGED <<reply, store>>
              ELSE /\ reply' = [reply EXCEPT ![p] = Http500("Calculation failed", r.error)]
                   /\ pc' = [pc EXCEPT ![p] = "done"]
                   /\ store' = save_calculation(store, txn_start[p], req, FreshResponse(req, zeros))
                   /\ UNCHANGED response
    /\ UNCHANGED <<clock, request, txn_start, seen>>

\* distance_service.calculate_circuity with the unrounded coordinates of
\* the request; an exception becomes HTTPException 500.
Compute(p, o, elapsed) ==
    /\ pc[p] = "compute"
    /\ LET req == request[p][1]
           r == calculate_circuity(req.origin.lat, req.origin.lng,
                                   req.destination.lat, req.destination.lng,
                                   req.units, o, elapsed)
       IN  /\ trace' = [trace EXCEPT ![p] = @ \o r.gets]
           /\ osrm' = [osrm EXCEPT ![p] = <<o>>]
           /\ IF r.ok
              THEN /\ response' = [response EXCEPT ![p] = <<FreshResponse(req, r.value)>>]
                   /\ pc' = [pc EXCEPT ![p] = "save"]
                   /\ UNCHANGED reply
              ELSE /\ reply' = [reply EXCEPT ![p] = Http500("Calculation failed", r.error)]
                   /\ pc' = [pc EXCEPT ![p] = "done"]
                   /\ UNCHANGED response
    /\ UNCHANGED <<store, clock, request, txn_start, seen>>

\* CacheService.save_calculation, then the computed response is returned.
Save(p) ==
    /\ pc[p] = "save"
    /\ store' = save_calculation(store, txn_start[p], request[p][1], response[p][1])
    /\ reply' = [reply EXCEPT ![p] = Ok200(response[p][1])]
    /\ trace' = [trace EXCEPT ![p] = Append(@, "save")]
    /\ pc' = [pc EXCEPT ![p] = "done"]
    /\ UNCHANGED <<clock, request, response, txn_start, osrm, seen>>

\* The reply is sent; get_db closes the session; the worker is free again.
Finish(p) ==
    /\ pc[p] = "done"
    /\ pc' = [pc EXCEPT ![p] = "idle"]
    /\ request' = [request EXCEPT ![p] = <<>>]
    /\ response' = [response EXCEPT ![p] = <<>>]
    /\ txn_start' = [txn_start EXCEPT ![p] = 0]
    /\ osrm' = [osrm EXCEPT ![p] = <<>>]
    /\ trace' = [trace EXCEPT ![p] = <<>>]
    /\ seen' = [seen EXCEPT ![p] = 0]
    /\ reply' = [reply EXCEPT ![p] = <<>>]
    /\ UNCHANGED <<store, clock>>

(* ------------------ GET /history and GET /stats ----------------------- *)

\* get_calculation_history: one read of the table, then the page metadata.
History(p, page, limit, search, sort_by) ==
    /\ Accepts(p)
    /\ clock' = clock + 1
    /\ request' = [request EXCEPT ![p] =
                      <<[page |-> page, limit |-> limit, search |-> search, sort_by |-> sort_by]>>]
    /\ \E order \in Orderings(store, Filtered(store, search),
                               IF sort_by \in SortKeys THEN sort_by ELSE "newest") :
          LET r == get_calculation_history_paginated(store, page, limit, search, sort_by, order)
          IN  reply' = [reply EXCEPT ![p] =
                          IF r.ok
                          THEN Ok200(PaginatedHistory(r.value.records, r.value.total_count, page, limit))
                          ELSE Http500("Failed to retrieve history", r.error)]
    /\ trace' = [trace EXCEPT ![p] = <<"history">>]
    /\ seen' = [seen EXCEPT ![p] = Len(store)]
    /\ pc' = [pc EXCEPT ![p] = "done"]
    /\ UNCHANGED <<store, response, txn_start, osrm>>

\* get_calculation_stats handler
Stats(p) ==
    /\ Accepts(p)
    /\ clock' = clock + 1
    /\ LET r == get_calculation_stats(store)
       IN  reply' = [reply EXCEPT ![p] =
                       IF r.ok THEN Ok200(r.value)
                       ELSE Http500("Failed to retrieve stats", r.error)]
    /\ trace' = [trace EXCEPT ![p] = <<"stats">>]
    /\ seen' = [seen EXCEPT ![p] = Len(store)]
    /\ pc' = [pc EXCEPT ![p] = "done"]
    /\ UNCHANGED <<store, request, response, txn_start, osrm>>

Next ==
    \/ \E p \in Workers, page \in 1 .. MaxPage, limit \in 1 .. MaxLimit :
          History(p, page, limit, DefaultSearch, DefaultSortBy)
    \/ \E p \in Workers : Stats(p)
    \/ \E p \in Workers, req \in Requests : Calculate(p, req)
    \/ \E p \in Workers : LookupReverse(p)
    \/ \E p \in Workers, o \in OsrmOutcomes, elapsed \in ElapsedMs : Compute(p, o, elapsed)
    \/ \E p \in Workers : Save(p)
    \/ \E p \in Workers : Finish(p)

Spec == Init /\ [][Next]_vars

(* ------------- the history endpoint over a populated table ------------ *)

\* a routing reply with one route of m meters
Routed(m) ==
    [transport |-> "ok", status |-> 200, code |-> "Ok", message |-> None,
     routes |-> <<[distance |-> m]>>]

\* Calculations saved before the history is read, oldest first: none; one;
\* two of equal circuity_factor (one of them without an origin name); two of
\* different circuity_factor; three with two of equal circuity_factor; three
\* of different circuity_factor.
EarlierSaves ==
    LET ab == [origin |-> LocA, destination |-> LocB, units |-> "miles"]
        a2b == [origin |-> LocA2, destination |-> LocB, units |-> "miles"]
        abkm == [origin |-> LocA, destination |-> LocB, units |-> "km"]
        in(req, m) == [request |-> req, meters |-> m, elapsed |-> 7]
    IN  {<<>>,
         <<in(ab, 1500)>>,
         <<in(ab, 1500), in(a2b, 1500)>>,
         <<in(ab, 1500), in(ab, 2100)>>,
         <<in(ab, 2100), in(a2b, 1500), in(ab, 1500)>>,
         <<in(ab, 1500), in(a2b, 2100), in(abkm, 1500)>>}

\* the table after the first k of the saves; they were committed before
\* the clock of the model starts, one transaction after the other
RECURSIVE Populated(_, _)
Populated(saves, k) ==
    IF k = 0 THEN <<>>
    ELSE LET req == saves[k].request
             r == calculate_circuity(req.origin.lat, req.origin.lng,
                                     req.destination.lat, req.destination.lng,
                                     req.units, Routed(saves[k].meters), saves[k].elapsed)
         IN  save_calculation(Populated(saves, k - 1), k - Len(saves),
                              req, FreshResponse(req, r.value))

\* The service with calculations already saved and no request in progress.
InitHistory ==
    /\ store \in {Populated(saves, Len(saves)) : saves \in EarlierSaves}
    /\ clock = 0
    /\ pc = [p \in Workers |-> "idle"]
    /\ request = [p \in Workers |-> <<>>]
    /\ response = [p \in Workers |-> <<>>]
    /\ txn_start = [p \in Workers |-> 0]
    /\ osrm = [p \in Workers |-> <<>>]
    /\ trace = [p \in Workers |-> <<>>]
    /\ seen = [p \in Workers |-> 0]
    /\ reply = [p \in Workers |-> <<>>]

\* History queries with every page, limit, search and sort_by.
NextHistory ==
    \/ \E p \in Workers, page \in 1 .. MaxPage, limit \in 1 .. MaxLimit,
          search \in Searches, sort_by \in SortBys :
          History(p, page, limit, search, sort_by)
    \/ \E p \in Workers : Finish(p)

SpecHistory == InitHistory /\ [][NextHistory]_vars

(* ------------- calculate requests that differ in the names ------------ *)

\* LocA under another name, and without a name
LocA1 == [lat |-> 377749000, lng |-> -1224194000, name |-> <<"B", "a", "y">>]
LocA0 == [lat |-> 377749000, lng |-> -1224194000, name |-> NoName]

\* one route, in miles, requested with three different namings of its
\* endpoints, one of them in the opposite direction
NamedRequests ==
    {[origin |-> LocA, destination |-> LocB, units |-> "miles"],
     [origin |-> LocA1, destination |-> LocB, units |-> "miles"],
     [origin |-> LocB, destination |-> LocA0, units |-> "miles"]}

NextNames ==
    \/ \E p \in Workers, req \in NamedRequests : Calculate(p, req)
    \/ \E p \in Workers : LookupReverse(p)
    \/ \E p \in Workers, o \in OsrmOutcomes, elapsed \in ElapsedMs : Compute(p, o, elapsed)
    \/ \E p \in Workers : Save(p)
    \/ \E p \in Workers : Finish(p)

SpecNames == Init /\ [][NextNames]_vars

(* --------------------------- GET /health ------------------------------ *)

\* HealthResponse; the timestamp is the time of the reply
HealthResponse(osrm_status, db_status, now) ==
    [status |-> IF osrm_status /\ db_status THEN "healthy" ELSE "unhealthy",
     osrm_connected |-> osrm_status,
     database_connected |-> db_status,
     timestamp |-> now]

\* health_check: the routing probe, then test_connection (SELECT 1 on a
\* session of its own, True or False); the handler has no try block, so an
\* exception of the probe would end it with the server's 500 reply.
Health(p, o, db_status) ==
    /\ Accepts(p)
    /\ clock' = clock + 1
    /\ LET r == test_osrm_connection(o)
       IN  reply' = [reply EXCEPT ![p] =
                       IF r.ok THEN Ok200(HealthResponse(r.value, db_status, clock + 1))
                       ELSE Http500("Internal Server Error", r.error)]
    /\ osrm' = [osrm EXCEPT ![p] = <<o>>]
    /\ trace' = [trace EXCEPT ![p] = <<"health">>]
    /\ seen' = [seen EXCEPT ![p] = Len(store)]
    /\ pc' = [pc EXCEPT ![p] = "done"]
    /\ UNCHANGED <<store, request, response, txn_start>>

\* Health checks while calculate requests are served.
NextHealth ==
    \/ \E p \in Workers, o \in ProbeOutcomes, db_status \in BOOLEAN : Health(p, o, db_status)
    \/ \E p \in Workers, req \in NamedRequests : Calculate(p, req)
    \/ \E p \in Workers : LookupReverse(p)
    \/ \E p \in Workers, o \in OsrmOutcomes, elapsed \in ElapsedMs : Compute(p, o, elapsed)
    \/ \E p \in Workers : Save(p)
    \/ \E p \in Workers : Finish(p)

SpecHealth == Init /\ [][NextHealth]_vars

(* ------------------- failures of the database ------------------------- *)

\* the exception of a failed statement or commit (connection lost,
\* constraint violated), as the handler's f-string renders it
StoreError == <<"OperationalError">>

\* The request arrives and the first query of get_cached_calculation
\* fails; the handler's `except Exception` answers HTTPException 500.
CalculateStoreError(p, req) ==
    /\ Accepts(p)
    /\ clock' = clock + 1
    /\ txn_start' = [txn_start EXCEPT ![p] = clock + 1]
    /\ request' = [request EXCEPT ![p] = <<req>>]
    /\ seen' = [seen EXCEPT ![p] = Len(store)]
    /\ reply' = [reply EXCEPT ![p] = Http500("Calculation failed", StoreError)]
    /\ trace' = [trace EXCEPT ![p] = <<"forward_error">>]
    /\ pc' = [pc EXCEPT ![p] = "done"]
    /\ UNCHANGED <<store, response, osrm>>

\* The second query of get_cached_calculation fails.
LookupReverseStoreError(p) ==
    /\ pc[p] = "lookup_reverse"
    /\ reply' = [reply EXCEPT ![p] = Http500("Calculation failed", StoreError)]
    /\ trace' = [trace EXCEPT ![p] = Append(@, "reverse_error")]
    /\ pc' = [pc EXCEPT ![p] = "done"]
    /\ UNCHANGED <<store, clock, request, response, txn_start, osrm, seen>>

\* Variant of SaveStoreError that answers with the computed response.
SaveStoreError_swallowed(p) ==
    /\ pc[p] = "save"
    /\ store' = store
    /\ reply' = [reply EXCEPT ![p] = Ok200(response[p][1])]
    /\ trace' = [trace EXCEPT ![p] = Append(@, "save_error")]
    /\ pc' = [pc EXCEPT ![p] = "done"]
    /\ UNCHANGED <<clock, request, response, txn_start, osrm, seen>>

\* db.commit() of save_calculation raises: the insert is rolled back, or,
\* when the connection broke after the server had committed, the row is
\* in the table; the exception passes save_calculation and the handler's
\* `except Exception` answers HTTPException 500.
SaveStoreError(p) ==
    /\ pc[p] = "save"
    /\ store' \in {store,
                   save_calculation(store, txn_start[p], request[p][1], response[p][1])}
    /\ reply' = [reply EXCEPT ![p] = Http500("Calculation failed", StoreError)]
    /\ trace' = [trace EXCEPT ![p] = Append(@, "save_error")]
    /\ pc' = [pc EXCEPT ![p] = "done"]
    /\ UNCHANGED <<clock, request, response, txn_start, osrm, seen>>

\* Calculate requests against a database that may fail at every statement.
NextStoreErrors ==
    \/ \E p \in Workers, req \in NamedRequests : Calculate(p, req)
    \/ \E p \in Workers, req \in NamedRequests : CalculateStoreError(p, req)
    \/ \E p \in Workers : LookupReverse(p)
    \/ \E p \in Workers : LookupReverseStoreError(p)
    \/ \E p \in Workers, o \in OsrmOutcomes, elapsed \in ElapsedMs : Compute(p, o, elapsed)
    \/ \E p \in Workers : Save(p)
    \/ \E p \in Workers : SaveStoreError(p)
    \/ \E p \in Workers : Finish(p)

SpecStoreErrors == Init /\ [][NextStoreErrors]_vars

(* ------------- calculate requests served one at a time ---------------- *)

\* no handler is in progress and no reply is pending
AllIdle == \A q \in Workers : pc[q] = "idle"

\* A calculate request is accepted only when the one before it is over.
NextSequential ==
    \/ \E p \in Workers, req \in Requests : AllIdle /\ Calculate(p, req)
    \/ \E p \in Workers : LookupReverse(p)
    \/ \E p \in Workers, o \in OsrmOutcomes, elapsed \in ElapsedMs : Compute(p, o, elapsed)
    \/ \E p \in Workers : Save(p)
    \/ \E p \in Workers : Finish(p)

SpecSequential == Init /\ [][NextSequential]_vars

(* ============================ properties ============================== *)

\* worker p runs (or has just finished) a POST /calculate handler
IsCalculate(p) == request[p] # <<>> /\ "origin" \in DOMAIN request[p][1]

\* worker p has finished with a 200 reply / with an HTTPException 500
Replied200(p) == pc[p] = "done" /\ reply[p].status = 200
Replied500(p) == pc[p] = "done" /\ reply[p].status = 500

\* the body of the 200 reply of worker p
Body(p) == reply[p].body[1]

\* the four values a cache hit must reproduce
Values(r) == <<r.road_distance, r.straight_distance, r.circuity_factor, r.efficiency_percent>>

\* row is stored for the route origin -> destination of req, in req's units
IsForwardRow(row, req) ==
    /\ row.origin_lat = Round6(req.origin.lat)
    /\ row.origin_lng = Round6(req.origin.lng)
    /\ row.destination_lat = Round6(req.destination.lat)
    /\ row.destination_lng = Round6(req.destination.lng)
    /\ row.units = req.units

\* row is stored for the route destination -> origin of req, in req's units
IsReverseRow(row, req) ==
    /\ row.origin_lat = Round6(req.destination.lat)
    /\ row.origin_lng = Round6(req.destination.lng)
    /\ row.destination_lat = Round6(req.origin.lat)
    /\ row.destination_lng = Round6(req.origin.lng)
    /\ row.units = req.units

\* number of occurrences of the step e in the sequence t
Count(t, e) == Cardinality({k \in DOMAIN t : t[k] = e})

\* the steps of a handler that missed the cache, computed and saved
FreshTrace == <<"forward_miss", "reverse_miss", "straight", "osrm", "save">>

(* ------------------------------- C1 ----------------------------------- *)

\* C1 as stated: once a row for A->B in units u is committed, a calculate
\* request for B->A in u that arrives later never computes, and its reply
\* is a cache hit whose four values are those of THAT row.
C1_HitReturnsTheSavedRow ==
    \A p \in Workers :
        IsCalculate(p) =>
            \A i \in 1 .. seen[p] :
                IsReverseRow(store[i], request[p][1]) =>
                    /\ pc[p] \notin {"compute", "save"}
                    /\ pc[p] = "done" =>
                          /\ Replied200(p)
                          /\ Body(p).cached = TRUE
                          /\ Values(Body(p)) = Values(store[i])

\* C1 (amended): cache symmetry.  Once a row for A->B in units u is
\* committed, a calculate request for B->A in u that arrives later never
\* computes, and its reply is a cache hit (cached = TRUE) whose four values
\* are those of one stored row of that route, in either direction.
C1_CacheSymmetry ==
    \A p \in Workers :
        IsCalculate(p) =>
            \A i \in 1 .. seen[p] :
                IsReverseRow(store[i], request[p][1]) =>
                    /\ pc[p] \notin {"compute", "save"}
                    /\ pc[p] = "done" =>
                          /\ Replied200(p)
                          /\ Body(p).cached = TRUE
                          /\ \E j \in DOMAIN store :
                                /\ IsForwardRow(store[j], request[p][1])
                                      \/ IsReverseRow(store[j], request[p][1])
                                /\ Values(Body(p)) = Values(store[j])

\* a B->A request answered from the row saved for A->B
C1_Witness ==
    \E p \in Workers :
        /\ IsCalculate(p)
        /\ Replied200(p)
        /\ trace[p] = <<"forward_miss", "reverse_hit">>
        /\ \E i \in 1 .. seen[p] :
              /\ IsReverseRow(store[i], request[p][1])
              /\ Values(Body(p)) = Values(store[i])

(* ------------------------------- C2 ----------------------------------- *)

\* C2: duplicate-row race.  When two handlers for the same route (or the
\* route and its reverse) in the same units have both missed the cache,
\* computed and saved, the table holds two rows for that route: the
\* request path does nothing to prevent the duplicate.
C2_DuplicateRows ==
    \A p, q \in Workers :
        /\ p # q
        /\ IsCalculate(p) /\ IsCalculate(q)
        /\ pc[p] = "done" /\ pc[q] = "done"
        /\ trace[p] = FreshTrace /\ trace[q] = FreshTrace
        /\ LET a == request[p][1]
               b == request[q][1]
           IN  /\ a.units = b.units
               /\ \/ /\ Round6(a.origin.lat) = Round6(b.origin.lat)
                     /\ Round6(a.origin.lng) = Round6(b.origin.lng)
                     /\ Round6(a.destination.lat) = Round6(b.destination.lat)
                     /\ Round6(a.destination.lng) = Round6(b.destination.lng)
                  \/ /\ Round6(a.origin.lat) = Round6(b.destination.lat)
                     /\ Round6(a.origin.lng) = Round6(b.destination.lng)
                     /\ Round6(a.destination.lat) = Round6(b.origin.lat)
                     /\ Round6(a.destination.lng) = Round6(b.origin.lng)
        => Cardinality({i \in DOMAIN store :
                           \/ IsForwardRow(store[i], request[p][1])
                           \/ IsReverseRow(store[i], request[p][1])}) >= 2

\* two workers raced on a route and its reverse; the table holds both rows
C2_Witness ==
    \E p, q \in Workers :
        /\ p # q
        /\ IsCalculate(p) /\ IsCalculate(q)
        /\ trace[p] = FreshTrace /\ trace[q] = FreshTrace
        /\ seen[p] = 0 /\ seen[q] = 0
        /\ \E i, j \in DOMAIN store :
              /\ i # j
              /\ IsForwardRow(store[i], request[p][1])
              /\ IsReverseRow(store[j], request[p][1])
              /\ IsForwardRow(store[j], request[q][1])

(* ------------------------------- C3 ----------------------------------- *)

\* C3: the table is append-only.  Every step keeps all rows that were
\* stored, with all fields unchanged; a save adds exactly one row, and no
\* other step (lookup, computation, history, stats, reply) changes the table.
C3_AppendOnly ==
    [][/\ Len(store') >= Len(store)
       /\ SubSeq(store', 1, Len(store)) = store
       /\ IF \E p \in Workers : pc[p] = "save" /\ pc'[p] = "done"
          THEN Len(store') = Len(store) + 1
          ELSE store' = store]_vars

\* two rows are stored, in the order they were saved, and a history query
\* has been answered since
C3_Witness ==
    /\ Len(store) >= 2
    /\ \A i \in DOMAIN store : store[i].id = i
    /\ \E p \in Workers : trace[p] = <<"history">> /\ Replied200(p)

(* ------------------------------- C4 ----------------------------------- *)

\* C4: control flow of a calculate request.  The cache lookup is the first
\* step.  After a hit the handler is finished: it replies 200 with
\* cached = TRUE and the values of a stored row of the route, and has made
\* no routing request and no save.  Computation happens only after both
\* lookups missed, the save only after the computation, and the reply
\* after a save is the computed response with cached = FALSE.
C4_ControlFlow ==
    \A p \in Workers :
        IsCalculate(p) =>
            LET t == trace[p]
                hit == Count(t, "forward_hit") + Count(t, "reverse_hit") > 0
            IN  /\ t[1] \in {"forward_hit", "forward_miss"}
                /\ hit =>
                      /\ Replied200(p)
                      /\ Body(p).cached = TRUE
                      /\ Count(t, "osrm") = 0 /\ Count(t, "save") = 0
                      /\ \E i \in DOMAIN store :
                            /\ IsForwardRow(store[i], request[p][1])
                                  \/ IsReverseRow(store[i], request[p][1])
                            /\ Values(Body(p)) = Values(store[i])
                /\ Count(t, "osrm") > 0 =>
                      SubSeq(t, 1, 4) = SubSeq(FreshTrace, 1, 4)
                /\ Count(t, "save") > 0 =>
                      /\ t = FreshTrace
                      /\ Replied200(p)
                      /\ Body(p).cached = FALSE
                      /\ Body(p) = response[p][1]
                /\ Replied200(p) => hit \/ t = FreshTrace

\* one worker has answered from the cache while the other has computed and saved
C4_Witness ==
    \E p, q \in Workers :
        /\ IsCalculate(p) /\ IsCalculate(q)
        /\ Replied200(p) /\ Body(p).cached = TRUE /\ trace[p] = <<"forward_hit">>
        /\ Replied200(q) /\ Body(q).cached = FALSE /\ trace[q] = FreshTrace

(* ------------------------------- C5 ----------------------------------- *)

\* C5: forward-match precedence.  If a row of the forward direction is in
\* the table when the lookup starts, the reply is the cache hit built from
\* a forward row, also when a reverse row is there as well; the reverse
\* query runs only when the forward query found no row.
C5_ForwardPrecedence ==
    \A p \in Workers :
        IsCalculate(p) =>
            LET fwd == {i \in 1 .. seen[p] : IsForwardRow(store[i], request[p][1])}
            IN  IF fwd # {}
                THEN /\ trace[p] = <<"forward_hit">>
                     /\ Replied200(p)
                     /\ Body(p).cached = TRUE
                     /\ \E i \in fwd : Values(Body(p)) = Values(store[i])
                ELSE trace[p][1] = "forward_miss"

\* the table held a forward and a reverse row with different values, and
\* the reply carries the values of the forward row
C5_Witness ==
    \E p \in Workers :
        /\ IsCalculate(p)
        /\ Replied200(p)
        /\ \E i, j \in 1 .. seen[p] :
              /\ IsForwardRow(store[i], request[p][1])
              /\ IsReverseRow(store[j], request[p][1])
              /\ Values(store[i]) # Values(store[j])
              /\ Values(Body(p)) = Values(store[i])

(* ------------------------------- C6 ----------------------------------- *)

\* the failure mode of a routing outcome, as the specification names them
FailureMode(o) ==
    IF o.transport # "ok" THEN "network"
    ELSE IF o.code # "Ok" THEN "error_code"
    ELSE IF o.routes = <<>> THEN "no_route"
    ELSE "none"

\* the error outcome an exception message of calculate_road_distance stands for
ErrorOutcome(e) ==
    IF e[1] = "OSRM connection error" THEN "RoutingUnavailable"
    ELSE IF e = <<"Road distance calculation failed", "No routes found">> THEN "NoRouteFound"
    ELSE IF Len(e) = 3 /\ e[1] = "Road distance calculation failed" /\ e[2] = "OSRM error"
    THEN "RoutingServiceError"
    ELSE "other"

\* the exception that reached the handler: the detail without the handler's prefix
Caught(p) == Tail(reply[p].detail)

\* C6: the three failure modes of the routing request reach the caller of
\* calculate_circuity as three distinct errors: a network or timeout
\* failure as RoutingUnavailable, an answer without a route as
\* NoRouteFound, and an answer with an application-level error code as
\* RoutingServiceError carrying the upstream message.
C6_DistinctRoutingErrors ==
    \A p \in Workers :
        (IsCalculate(p) /\ osrm[p] # <<>> /\ FailureMode(osrm[p][1]) # "none") =>
            /\ Replied500(p)
            /\ FailureMode(osrm[p][1]) = "network" =>
                  ErrorOutcome(Caught(p)) = "RoutingUnavailable"
            /\ FailureMode(osrm[p][1]) = "no_route" =>
                  ErrorOutcome(Caught(p)) = "NoRouteFound"
            /\ FailureMode(osrm[p][1]) = "error_code" =>
                  /\ ErrorOutcome(Caught(p)) = "RoutingServiceError"
                  /\ Caught(p)[3] = osrm[p][1].message

(* ------------------------------- C7 ----------------------------------- *)

\* the routing outcome o carries a distance that rounds to 0.00 in units
RoundsToZero(o, units) ==
    /\ FailureMode(o) = "none"
    /\ IF units = "miles"
       THEN o.routes[1].distance * 621371 <= 5000000
       ELSE o.routes[1].distance <= 5

\* C7: every stored row has road_distance > 0 (and straight_distance > 0):
\* a computation whose road distance or straight distance is 0 ends with an
\* error and saves nothing.
C7_RoadDistancePositive ==
    /\ \A i \in DOMAIN store :
          store[i].road_distance > 0 /\ store[i].straight_distance > 0
    /\ \A p \in Workers :
          (IsCalculate(p) /\ osrm[p] # <<>> /\ FailureMode(osrm[p][1]) = "none") =>
              LET req == request[p][1]
                  same_point == Round6(req.origin.lat) = Round6(req.destination.lat)
                                  /\ Round6(req.origin.lng) = Round6(req.destination.lng)
              IN  (same_point \/ RoundsToZero(osrm[p][1], req.units)) =>
                      /\ Replied500(p)
                      /\ Count(trace[p], "save") = 0

\* the routing service reported 0 m for a route between two distinct
\* points: the request failed with the division error while the table
\* holds rows of other requests
C7_Witness ==
    \E p \in Workers :
        /\ IsCalculate(p)
        /\ osrm[p] # <<>>
        /\ RoundsToZero(osrm[p][1], request[p][1].units)
        /\ request[p][1].origin = LocA /\ request[p][1].destination = LocB
        /\ Replied500(p)
        /\ Caught(p) = <<"float division by zero">>
        /\ Len(store) > 0

(* ------------------------------- C8 ----------------------------------- *)

\* n / d rounded to the nearest integer, ties to even, for n >= 0 and d > 0
Nearest(n, d) ==
    CHOOSE k \in {n \div d, n \div d + 1} :
        /\ 2 * (k * d - n) <= d
        /\ 2 * (n - k * d) <= d
        /\ 2 * (k * d - n) = d => k % 2 = 0
        /\ 2 * (n - k * d) = d => k % 2 = 0

\* C8: in every reachable state every stored row has
\* circuity_factor = round(road_distance / straight_distance, 3), taken from
\* that row's own road_distance and straight_distance.
C8_CircuityOfStoredRows ==
    \A i \in DOMAIN store :
        /\ store[i].straight_distance > 0
        /\ store[i].circuity_factor =
              Nearest(1000 * store[i].road_distance, store[i].straight_distance)

\* rows with different road distances, each with its own ratio, are stored
C8_Witness ==
    \E i, j \in DOMAIN store :
        /\ store[i].road_distance # store[j].road_distance
        /\ store[i].circuity_factor # store[j].circuity_factor
        /\ store[i].straight_distance = store[j].straight_distance

(* ------------------------------- C9 ----------------------------------- *)

\* C9: one routing request per computation, never repeated.  A handler
\* that answers from the cache makes none; a handler that missed the cache
\* has made exactly one once its computation is over, whether the request
\* succeeded or failed; and a failed routing request ends the handler with
\* an error reply.
C9_OneRoutingRequest ==
    \A p \in Workers :
        IsCalculate(p) =>
            /\ Count(trace[p], "osrm") <= 1
            /\ pc[p] \in {"lookup_reverse", "compute"} => Count(trace[p], "osrm") = 0
            /\ Count(trace[p], "reverse_miss") = 1 /\ pc[p] # "compute" =>
                  Count(trace[p], "osrm") = 1 /\ osrm[p] # <<>>
            /\ Count(trace[p], "reverse_miss") = 0 =>
                  Count(trace[p], "osrm") = 0 /\ osrm[p] = <<>>
            /\ osrm[p] # <<>> /\ FailureMode(osrm[p][1]) # "none" =>
                  Replied500(p) /\ Count(trace[p], "save") = 0

\* a routing request timed out: the handler made that one request and
\* replied with an error
C9_Witness ==
    \E p \in Workers :
        /\ IsCalculate(p)
        /\ osrm[p] # <<>>
        /\ osrm[p][1].transport = "Timeout"
        /\ Count(trace[p], "osrm") = 1
        /\ Replied500(p)

(* ------------------------------- C10 ---------------------------------- *)

\* the least k with k * d >= n, for n >= 0 and d > 0
Ceiling(n, d) == CHOOSE k \in 0 .. n : k * d >= n /\ \A j \in 0 .. n : j * d >= n => k <= j

\* worker p has answered a history query
IsHistory(p) == trace[p] = <<"history">> /\ Replied200(p)

\* C10: pagination metadata of a history reply for page >= 1 and limit L
\* over the N rows that matched when the query ran: total_count = N, total_pages = ceil(N / L),
\* has_next = (page < total_pages) and has_prev = (page > 1); also for
\* N = 0 (total_pages = 0) and for pages beyond total_pages.
C10_PaginationMetadata ==
    \A p \in Workers :
        IsHistory(p) =>
            LET b == Body(p)
                q == request[p][1]
            IN  /\ b.page = q.page /\ b.limit = q.limit
                /\ b.total_count = seen[p]
                /\ b.total_pages = Ceiling(b.total_count, b.limit)
                /\ b.has_next = (b.page < Ceiling(b.total_count, b.limit))
                /\ b.has_prev = (b.page > 1)

\* page 3 of a history with 1 row and limit 2: one page, nothing after it
C10_Witness ==
    \E p \in Workers :
        /\ IsHistory(p)
        /\ Body(p).total_count = 1 /\ Body(p).limit = 2 /\ Body(p).page = 3
        /\ Body(p).total_pages = 1
        /\ ~Body(p).has_next /\ Body(p).has_prev

(* ------------------------------- C11 ---------------------------------- *)

\* the table as it was when worker p ran its query (rows are only appended)
StoreSeen(p) == SubSeq(store, 1, seen[p])

\* item x may stand before item y in a result sorted by sort_by
Precedes(sort_by, x, y) ==
    CASE sort_by = "newest" -> x.created_at >= y.created_at
      [] sort_by = "oldest" -> x.created_at <= y.created_at
      [] sort_by = "circuity_asc" -> x.circuity_factor <= y.circuity_factor
      [] sort_by = "circuity_desc" -> x.circuity_factor >= y.circuity_factor

\* p and q answered the same history query, but for the page number, from
\* the same table
SameListing(p, q) ==
    /\ IsHistory(p) /\ IsHistory(q)
    /\ request[p][1].limit = request[q][1].limit
    /\ request[p][1].search = request[q][1].search
    /\ request[p][1].sort_by = request[q][1].sort_by
    /\ seen[p] = seen[q]

\* number of records on page `page` of n records, `limit` to a page
PageLength(n, page, limit) ==
    IF n <= (page - 1) * limit THEN 0
    ELSE IF n - (page - 1) * limit < limit THEN n - (page - 1) * limit
    ELSE limit

IsHistoryQuery(p) == request[p] # <<>> /\ "sort_by" \in DOMAIN request[p][1]

\* the values of sortBy the interface defines
ValidSortBy == {"newest", "oldest", "circuity_asc", "circuity_desc"}

\* status codes of a request rejected as invalid: a client error, as the
\* validation of page and limit produces (422)
ClientErrors == 400 .. 499

\* C12: a history query with a sortBy outside newest, oldest, circuity_asc,
\* circuity_desc is rejected as invalid input: it is not answered with a
\* listing, and its reply is a client error, which no failure of a query
\* with a valid sortBy produces.
C12_InvalidSortByRejected ==
    \A p \in Workers :
        /\ IsHistoryQuery(p)
        /\ pc[p] = "done"
        /\ request[p][1].sort_by \notin ValidSortBy
        => /\ reply[p].status # 200
           /\ reply[p].status \in ClientErrors

(* --------------------------- C13 and C14 ------------------------------ *)

\* worker p has finished a GET /stats handler
IsStats(p) == trace[p] = <<"stats">> /\ pc[p] = "done"

\* sum of field f over the rows of table
RECURSIVE SumOf(_, _)
SumOf(table, f) ==
    IF table = <<>> THEN 0 ELSE table[Len(table)][f] + SumOf(SubSeq(table, 1, Len(table) - 1), f)

\* C13: on a non-empty table the statistics are returned without error:
\* total_calculations is the number of rows, average_circuity_factor the
\* mean circuity_factor rounded to 3 decimals and
\* average_efficiency_percent the mean efficiency_percent rounded to 2.
C13_StatsOfStoredRows ==
    \A p \in Workers :
        IsStats(p) /\ seen[p] > 0 =>
            /\ reply[p].status = 200
            /\ Body(p).total_calculations = seen[p]
            /\ Body(p).average_circuity_factor =
                  Nearest(SumOf(StoreSeen(p), "circuity_factor"), seen[p])
            /\ Body(p).average_efficiency_percent =
                  Nearest(SumOf(StoreSeen(p), "efficiency_percent"), seen[p])

\* C14: on an empty table the statistics are 0, 0 and 0, returned without
\* error.
C14_StatsOfEmptyStore ==
    \A p \in Workers :
        IsStats(p) /\ seen[p] = 0 =>
            /\ reply[p].status = 200
            /\ Body(p).total_calculations = 0
            /\ Body(p).average_circuity_factor = 0
            /\ Body(p).average_efficiency_percent = 0

\* statistics were asked for before anything was saved, and were returned
C14_Witness ==
    \E p \in Workers :
        /\ IsStats(p)
        /\ seen[p] = 0 /\ store = <<>>
        /\ reply[p].status = 200
        /\ Body(p).total_calculations = 0

(* ------------------------------- C15 ---------------------------------- *)

\* row is stored under names other than those of the request
OtherNames(row, req) ==
    row.origin_name # req.origin.name \/ row.destination_name # req.destination.name

\* C15: location names are not part of the cache identity.  A request
\* misses the forward (reverse) lookup only if no row of its coordinates
\* (swapped coordinates) and units was stored when it arrived, whatever the
\* names of the rows; and a cache hit answers with the origin and the
\* destination of the request, names and direction, not those of the row.
C15_NamesOutsideCacheIdentity ==
    \A p \in Workers :
        IsCalculate(p) =>
            LET req == request[p][1]
            IN  /\ Count(trace[p], "forward_miss") = 1 =>
                      \A i \in 1 .. seen[p] : ~IsForwardRow(store[i], req)
                /\ Count(trace[p], "reverse_miss") = 1 =>
                      \A i \in 1 .. seen[p] : ~IsReverseRow(store[i], req)
                /\ Replied200(p) /\ Body(p).cached =>
                      /\ Body(p).origin = req.origin
                      /\ Body(p).destination = req.destination

\* a request was answered from a row stored under other names, with the
\* names of the request
C15_Witness ==
    \E p \in Workers :
        /\ IsCalculate(p) /\ Replied200(p) /\ Body(p).cached
        /\ \A i \in DOMAIN store :
              IsForwardRow(store[i], request[p][1]) /\ OtherNames(store[i], request[p][1])
        /\ store # <<>>
        /\ Body(p).origin.name = request[p][1].origin.name
        /\ Body(p).origin.name # store[1].origin_name

(* ------------------------------- C16 ---------------------------------- *)

\* row is stored for the route of req, in either direction, in other units
IsOtherUnitsRow(row, req) ==
    /\ row.units # req.units
    /\ \/ IsForwardRow([row EXCEPT !.units = req.units], req)
       \/ IsReverseRow([row EXCEPT !.units = req.units], req)

\* C16: units are part of the cache identity.  A cached response has the
\* units of the request, its distances are those of a stored row of the
\* route in these units, and they are not the distances of a row of the
\* route stored in the other units.
C16_UnitsInCacheIdentity ==
    \A p \in Workers :
        IsCalculate(p) /\ Replied200(p) /\ Body(p).cached =>
            LET req == request[p][1]
                distances(r) == <<r.road_distance, r.straight_distance>>
            IN  /\ Body(p).units = req.units
                /\ \E i \in DOMAIN store :
                      /\ store[i].units = req.units
                      /\ IsForwardRow(store[i], req) \/ IsReverseRow(store[i], req)
                      /\ distances(store[i]) = distances(Body(p))
                /\ \A i \in DOMAIN store :
                      IsOtherUnitsRow(store[i], req) => distances(store[i]) # distances(Body(p))

\* the route is stored in miles and in kilometers, and a request in
\* kilometers was answered from the cache
C16_Witness ==
    \E p \in Workers :
        /\ IsCalculate(p) /\ Replied200(p) /\ Body(p).cached
        /\ request[p][1].units = "km" /\ Body(p).units = "km"
        /\ \E i \in DOMAIN store : IsOtherUnitsRow(store[i], request[p][1])

(* ------------------------------- C17 ---------------------------------- *)

\* worker p has run the health check
IsHealth(p) == trace[p] = <<"health">>

\* the routing service answered the probe with status 200 and code "Ok"
AnsweredOk(o) ==
    /\ o.transport = "ok"
    /\ o.status = 200
    /\ o.json = "object"
    /\ o.code = "Ok"

\* C17: the availability probe never raises.  Whatever the probe's request
\* produced, the health check ends with a reply that carries a boolean,
\* true exactly when the routing service answered with status 200 and code
\* "Ok"; and the step changes neither the table nor anything of the
\* handlers the other workers run, so that no calculate request has
\* another outcome for it.
C17_ProbeSwallowsErrors ==
    [][\A p \in Workers :
          IsHealth(p)' /\ ~IsHealth(p) =>
              /\ reply'[p].status = 200
              /\ reply'[p].body[1].osrm_connected \in BOOLEAN
              /\ reply'[p].body[1].osrm_connected = AnsweredOk(osrm'[p][1])
              /\ store' = store
              /\ \A q \in Workers \ {p} :
                    /\ pc'[q] = pc[q] /\ request'[q] = request[q]
                    /\ response'[q] = response[q] /\ reply'[q] = reply[q]
                    /\ osrm'[q] = osrm[q] /\ trace'[q] = trace[q]]_vars

\* the probe timed out while another worker was about to compute: the
\* health check reported the routing service as not connected
C17_Witness ==
    \E p, q \in Workers :
        /\ IsHealth(p) /\ pc[p] = "done"
        /\ osrm[p][1].transport = "Timeout"
        /\ reply[p].status = 200 /\ ~Body(p).osrm_connected
        /\ pc[q] = "compute"

(* ------------------------------- C18 ---------------------------------- *)

\* the step a is taken somewhere before position j of the steps t
TakenBefore(t, a, j) == \E i \in 1 .. (j - 1) : t[i] = a

\* C18: order of the steps of one calculate request.  The routing request
\* is issued only after the straight distance was computed; the save is
\* reached, and made, only after the straight distance was computed and
\* the routing request returned a route, and it stores these two
\* distances.
C18_SaveAfterBothDistances ==
    \A p \in Workers :
        IsCalculate(p) =>
            LET t == trace[p]
                both(j) == /\ TakenBefore(t, "straight", j)
                           /\ TakenBefore(t, "osrm", j)
                           /\ osrm[p] # <<>>
                           /\ FailureMode(osrm[p][1]) = "none"
                           /\ response[p] # <<>>
            IN  /\ \A j \in DOMAIN t : t[j] = "osrm" => TakenBefore(t, "straight", j)
                /\ pc[p] = "save" => both(Len(t) + 1)
                /\ \A j \in DOMAIN t :
                      t[j] = "save" =>
                          /\ both(j)
                          /\ \E i \in DOMAIN store :
                                /\ store[i].created_at = txn_start[p]
                                /\ store[i].straight_distance = response[p][1].straight_distance
                                /\ store[i].road_distance = response[p][1].road_distance

\* a request computed the straight distance, obtained a route and saved
C18_Witness ==
    \E p \in Workers :
        /\ IsCalculate(p) /\ pc[p] = "done"
        /\ \E i, j, k \in DOMAIN trace[p] :
              /\ i < j /\ j < k
              /\ trace[p][i] = "straight" /\ trace[p][j] = "osrm" /\ trace[p][k] = "save"
        /\ \E i \in DOMAIN store : store[i].created_at = txn_start[p]

(* ------------------------------- C19 ---------------------------------- *)

\* the steps at which a statement of the handler failed
StoreFailures(t) ==
    Count(t, "forward_error") + Count(t, "reverse_error") + Count(t, "save_error")

\* C19: a persistence failure is propagated.  A calculate request whose
\* cache lookup or save failed is over and has answered with an error that
\* carries the failure; it has not answered with a result, in particular
\* not with the response it had computed before the save failed.
C19_StoreFailurePropagated ==
    \A p \in Workers :
        IsCalculate(p) =>
            /\ StoreFailures(trace[p]) > 0 =>
                  /\ pc[p] = "done"
                  /\ reply[p].status = 500
                  /\ reply[p].body = <<>>
                  /\ reply[p].detail[1] = "Calculation failed"
                  /\ Caught(p) = StoreError
                  /\ trace[p][Len(trace[p])] \in {"forward_error", "reverse_error", "save_error"}
            /\ Replied200(p) => StoreFailures(trace[p]) = 0

\* a request computed its response, the save failed, and the request
\* ended with an error
C19_Witness ==
    \E p \in Workers :
        /\ IsCalculate(p)
        /\ Count(trace[p], "save_error") = 1
        /\ response[p] # <<>>
        /\ Replied500(p)

(* ------------------------------- C20 ---------------------------------- *)

\* worker p ran a computation that failed: the routing request failed, or
\* a distance of zero left a ratio undefined
ComputationFailed(p) ==
    /\ IsCalculate(p)
    /\ Replied500(p)
    /\ osrm[p] # <<>>
    /\ \/ FailureMode(osrm[p][1]) # "none"
       \/ Caught(p) = <<"float division by zero">>

\* row is stored for the route of req, in either direction
IsRouteRow(row, req) == IsForwardRow(row, req) \/ IsReverseRow(row, req)

\* C20: a calculate request whose computation fails leaves the table as it
\* was: the step that ends it with the error changes no row, and no row of
\* the table was written by it.  A later identical request, as long as no
\* other request has stored the route, therefore misses the cache in both
\* directions and computes again.
C20_FailureLeavesStoreUnchanged ==
    [][/\ \A p \in Workers :
             ComputationFailed(p)' /\ ~ComputationFailed(p) => store' = store
       /\ \A p \in Workers :
             ComputationFailed(p)' =>
                 /\ \A i \in DOMAIN store' : store'[i].created_at # txn_start'[p]
                 /\ \A q \in Workers :
                       /\ IsCalculate(q)'
                       /\ request'[q] = request'[p]
                       /\ txn_start'[q] > txn_start'[p]
                       /\ \A i \in DOMAIN store' : ~IsRouteRow(store'[i], request'[p][1])
                       => /\ Count(trace'[q], "forward_hit") + Count(trace'[q], "reverse_hit") = 0
                          /\ trace'[q][1] = "forward_miss"
                          /\ pc'[q] # "lookup_reverse" =>
                                /\ Count(trace'[q], "reverse_miss") = 1
                                /\ pc'[q] = "compute" \/ Count(trace'[q], "straight") = 1]_vars

\* a request failed on a route of length zero; the same request, made
\* again, has missed the cache and computed again
C20_Witness ==
    \E p, q \in Workers :
        /\ ComputationFailed(p)
        /\ Caught(p) = <<"float division by zero">>
        /\ IsCalculate(q) /\ request[q] = request[p]
        /\ txn_start[q] > txn_start[p]
        /\ store = <<>>
        /\ Count(trace[q], "reverse_miss") = 1
        /\ Count(trace[q], "osrm") = 1

(* ------------------------------- C21 ---------------------------------- *)

\* rows r and s are stored for the same pair of rounded endpoints, in the
\* same or in the opposite direction, in the same units
SameEndpoints(r, s) ==
    /\ r.units = s.units
    /\ \/ /\ r.origin_lat = s.origin_lat /\ r.origin_lng = s.origin_lng
          /\ r.destination_lat = s.destination_lat /\ r.destination_lng = s.destination_lng
       \/ /\ r.origin_lat = s.destination_lat /\ r.origin_lng = s.destination_lng
          /\ r.destination_lat = s.origin_lat /\ r.destination_lng = s.origin_lng

\* C21: when every calculate request is over before the next one starts,
\* the table never holds two rows of the same units whose rounded endpoint
\* pairs are equal or swapped.
C21_NoDuplicatesWhenSequential ==
    \A i, j \in DOMAIN store :
        i # j => ~SameEndpoints(store[i], store[j])

\* the route is stored in miles and in kilometers, and a request for the
\* opposite direction, or from a point that rounds to the stored origin,
\* was answered from the cache and stored nothing
C21_Witness ==
    \E p \in Workers :
        /\ Len(store) = 2
        /\ IsCalculate(p) /\ Replied200(p) /\ Body(p).cached
        /\ seen[p] = 2
        /\ \/ request[p][1].origin = LocB
           \/ request[p][1].origin = LocA2

====
